---------------------------- MODULE Spec2Model ----------------------------
(***************************************************************************)
(* Model of the DataTables wrapper (js/datatables.core.js) and of the      *)
(* helpers it uses (Helpers.debounce, Helpers.getLanguage).                *)
(*                                                                         *)
(* The page is single threaded: every action below is one turn of the      *)
(* event loop (one handler run to completion).  Time is a clock in         *)
(* milliseconds; a timer whose delay has elapsed runs before the clock      *)
(* advances and before any event that arrives at or after its deadline.    *)
(***************************************************************************)
EXTENDS Integers, Sequences, FiniteSets, TLC

(***************************************************************************)
(* JavaScript values.  A value is a record with a type tag; the unused     *)
(* fields hold a fixed filler so that record equality is JavaScript's      *)
(* strict equality (===).                                                  *)
(***************************************************************************)
Undefined == [t |-> "undefined", b |-> FALSE, n |-> 0, s |-> ""]
Null      == [t |-> "null",      b |-> FALSE, n |-> 0, s |-> ""]
Bool(x)   == [t |-> "boolean",   b |-> x,     n |-> 0, s |-> ""]
Num(x)    == [t |-> "number",    b |-> FALSE, n |-> x, s |-> ""]
Str(x)    == [t |-> "string",    b |-> FALSE, n |-> 0, s |-> x]

\* typeof v === 'undefined'
IsUndefined(v) == v.t = "undefined"

\* ToBoolean(v): what `if (v)` and `!v` see
Truthy(v) ==
    CASE v.t = "boolean" -> v.b
      [] v.t = "number"  -> v.n # 0
      [] v.t = "string"  -> v.s # ""
      [] OTHER           -> FALSE

\* !v
Not(v) == Bool(~Truthy(v))

\* v > 0 for a boolean or a number v (ToNumber(true) = 1, ToNumber(false) = 0)
GreaterThanZero(v) ==
    CASE v.t = "boolean" -> v.b
      [] v.t = "number"  -> v.n > 0
      [] OTHER           -> FALSE

\* Array.prototype.indexOf: 0-based position of the first element strictly
\* equal to v, or -1
IndexOf(arr, v) ==
    IF \E i \in 1..Len(arr) : arr[i] = v
    THEN (CHOOSE i \in 1..Len(arr) :
              arr[i] = v /\ \A j \in 1..(i - 1) : arr[j] # v) - 1
    ELSE -1

(***************************************************************************)
(* Thrown values.  A message is the sequence of the fragments the code     *)
(* concatenates; <<>> stands for "nothing thrown".                         *)
(***************************************************************************)
NoThrow == <<>>
Contains(msg, frag) == \E i \in 1..Len(msg) : msg[i] = frag
Thrown(msg) == msg # NoThrow

columnRowSelector == ".js-table-columns"
filterRowSelector == ".js-table-filters"
prefixThrow       == "w2wDataTables: "

MsgMissingSource  == <<prefixThrow, "missing source", " data attribute!">>
MsgMissingId      == <<prefixThrow, "missing id", " attribute!">>
MsgMissingColumnRow ==
    <<prefixThrow, "missing column row", " (", columnRowSelector, ")!">>
MsgInvalidReload  == <<prefixThrow, "invalid reload interval!">>
MsgInvalidPerPage == <<prefixThrow, "invalid amount per page!">>
MsgMissingSortOrder ==
    <<prefixThrow,
      "You must add a sorting order (default-sort-order=\"asc/desc\")",
      " if you are filtering on a custom column!">>
MsgInvalidSortOrder ==
    <<prefixThrow,
      "You must add a valid sorting order (asc/desc) if you are filtering on a custom column!">>


(***************************************************************************)
(* The table element as the script reads it.                               *)
(*   source, autoReload, perPage : what $table.data(...) returns           *)
(*   tableID                     : what $table.attr('id') returns          *)
(*   columnRow                   : a .js-table-columns row exists          *)
(*   cells                       : the <th> cells of that row, in document *)
(*                                 order; name, orderable, searchable and  *)
(*                                 defaultSortOrder are .data(...) values, *)
(*                                 defaultSort is the raw attribute        *)
(*   filterRow                   : a .js-table-filters row exists          *)
(*   filters                     : its <th> cells; input / select tell     *)
(*                                 whether the cell holds a                *)
(*                                 .js-input-filter / .js-select-filter    *)
(***************************************************************************)
VARIABLES
    table,        \* the markup (never changes)
    phase,        \* "new", "failed", "built", "ready"; "standalone" and
                  \* "pure" for the helper specifications
    thrown,       \* what init threw (NoThrow if nothing)
    entered,      \* the functions of `functions` entered so far
    dtConfig,     \* <<>>, or <<options>> once $table.DataTable(options) ran
    dtCalls,      \* calls made on the DataTables API object, in order
    pendingDraws, \* redraws requested from the library and not yet completed
    recalcs,      \* calls of objTable.responsive.recalc() by the draw handler
    reloadTimer,  \* <<>>, or <<[id, interval, due]>> once setInterval ran
    drawHook,     \* the 'draw.dt' handler is attached
    handlers,     \* attached filter handlers: <<"input", c>>, <<"change", c>>
    deb,          \* the debounced functions: id -> [wait, immediate, timeout, col]
    timers,       \* the pending setTimeout timers: [id, due, inst, arg]
    timerSeq,     \* the last timer id handed out by setTimeout / setInterval
    invoked,      \* id -> invocations of the debounced function, [at, arg]
    fcalls,       \* id -> calls of the wrapped callback, [at, arg]
    now,          \* the clock, in ms
    result,       \* the values returned by the function under test
    changes,      \* the 'change' events dispatched so far: [col, val, pending],
                  \* pending: the column's text search was waiting then
    language      \* the lang attributes of the page's .js-language elements

vars == <<table, phase, thrown, entered, dtConfig, dtCalls, pendingDraws,
          recalcs,
          reloadTimer, drawHook, handlers, deb, timers, timerSeq, invoked,
          fcalls, now, result, changes, language>>

(***************************************************************************)
(* functions.hasRequirementsOrThrow: the message thrown, or NoThrow.       *)
(***************************************************************************)
hasRequirementsOrThrowSwapped(t) ==
    IF IsUndefined(t.tableID) \/ t.tableID = Str("")
    THEN MsgMissingId
    ELSE IF IsUndefined(t.source) \/ t.source = Str("")
    THEN MsgMissingSource
    ELSE IF ~t.columnRow
    THEN MsgMissingColumnRow
    ELSE NoThrow

hasRequirementsOrThrow(t) ==
    IF IsUndefined(t.source) \/ t.source = Str("")
    THEN MsgMissingSource
    ELSE IF IsUndefined(t.tableID) \/ t.tableID = Str("")
    THEN MsgMissingId
    ELSE IF ~t.columnRow
    THEN MsgMissingColumnRow
    \* typeof autoReload !== 'undefined' && !autoReload > 0, i.e. (!autoReload) > 0
    ELSE IF ~IsUndefined(t.autoReload) /\ GreaterThanZero(Not(t.autoReload))
    THEN MsgInvalidReload
    ELSE IF ~IsUndefined(t.perPage) /\ GreaterThanZero(Not(t.perPage))
    THEN MsgInvalidPerPage
    ELSE NoThrow

(***************************************************************************)
(* functions.getColumns.                                                   *)
(***************************************************************************)
defOrderable  == Bool(TRUE)
defSearchable == Bool(TRUE)
validOptionsSortOrder == <<Bool(TRUE), Bool(FALSE)>>

\* a "falsy means invalid" check
OptionOrDefaultFalsy(raw, def) ==
    IF IsUndefined(raw) \/ ~Truthy(raw) THEN def ELSE raw

\* if (typeof raw === 'undefined' || !validOptionsSortOrder.indexOf(raw)) raw = def
OptionOrDefault(raw, def) ==
    IF IsUndefined(raw) \/ Truthy(Not(Num(IndexOf(validOptionsSortOrder, raw))))
    THEN def
    ELSE raw

getColumns(t) ==
    [i \in 1..Len(t.cells) |->
        LET column           == t.cells[i]
            columnName       == column.name
            columnOrderable  == OptionOrDefault(column.orderable, defOrderable)
            columnSearchable == OptionOrDefault(column.searchable, defSearchable)
        IN  [data       |-> columnName,
             name       |-> columnName,
             orderable  |-> columnOrderable,
             searchable |-> columnSearchable]]

(***************************************************************************)
(* functions.getOrder: [throw, value]; value is the order array, a         *)
(* sequence of <<column index, direction>> pairs.                          *)
(***************************************************************************)
defaultOrder    == << <<0, Str("desc")>> >>
validSortOrders == <<Str("asc"), Str("desc")>>

\* $table.find('[data-default-sort="true"]'): the matching header cells, as
\* 1-based positions in t.cells, in document order
SortColumns(t) == {i \in 1..Len(t.cells) : t.cells[i].defaultSort = Str("true")}

\* the first element of the jQuery set (what .data() and .index() read)
FirstOf(S) == CHOOSE i \in S : \A j \in S : i <= j

\* a version that falls back to the default order instead of throwing
getOrderLenient(t) ==
    LET sortColumn      == SortColumns(t)
        sortColumnOrder == IF sortColumn = {} THEN Undefined
                           ELSE t.cells[FirstOf(sortColumn)].defaultSortOrder
    IN  IF sortColumn = {} \/ IndexOf(validSortOrders, sortColumnOrder) = -1
        THEN [throw |-> NoThrow, value |-> defaultOrder]
        ELSE [throw |-> NoThrow,
              value |-> << <<FirstOf(sortColumn) - 1, sortColumnOrder>> >>]

\* a version that reports the position among the marked columns
getOrderCounted(t) ==
    LET sortColumn      == SortColumns(t)
        sortColumnOrder == IF sortColumn = {} THEN Undefined
                           ELSE t.cells[FirstOf(sortColumn)].defaultSortOrder
    IN  IF sortColumn = {}
        THEN [throw |-> NoThrow, value |-> defaultOrder]
        ELSE IF IsUndefined(sortColumnOrder)
        THEN [throw |-> MsgMissingSortOrder, value |-> <<>>]
        ELSE IF IndexOf(validSortOrders, sortColumnOrder) = -1
        THEN [throw |-> MsgInvalidSortOrder, value |-> <<>>]
        ELSE [throw |-> NoThrow,
              value |-> << <<0, sortColumnOrder>> >>]

getOrder(t) ==
    LET sortColumn      == SortColumns(t)
        sortColumnOrder == IF sortColumn = {} THEN Undefined
                           ELSE t.cells[FirstOf(sortColumn)].defaultSortOrder
    IN  IF sortColumn = {}
        THEN [throw |-> NoThrow, value |-> defaultOrder]
        ELSE IF IsUndefined(sortColumnOrder)
        THEN [throw |-> MsgMissingSortOrder, value |-> <<>>]
        ELSE IF IndexOf(validSortOrders, sortColumnOrder) = -1
        THEN [throw |-> MsgInvalidSortOrder, value |-> <<>>]
        ELSE [throw |-> NoThrow,
              value |-> << <<FirstOf(sortColumn) - 1, sortColumnOrder>> >>]

(***************************************************************************)
(* functions.makeTable and the functions it calls.  The result is the      *)
(* state the page is left in: everything before $table.DataTable(...) is   *)
(* a read of the markup, so a throw of getOrder leaves nothing behind.     *)
(* translations.get(...) is a lookup in a string table the page supplies   *)
(* and is not modelled.                                                    *)
(***************************************************************************)
\* setInterval / setTimeout delay: a delay that is not a positive number
\* counts as 0
Delay(v) == IF v.t = "number" /\ v.n > 0 THEN v.n ELSE 0

\* one call on the DataTables API object; `by` is the handler that made it
ApiCall(by, op, col, val) == [by |-> by, op |-> op, col |-> col, val |-> val]

\* functions.bindReload: setInterval(function() { table.ajax.reload(); }, interval)
bindReload(interval) ==
    <<[id |-> timerSeq + 1, interval |-> interval,
       due |-> now + Delay(interval)]>>

\* functions.setPageLength: table.page.len(globals.perPage).draw()
setPageLength(t) ==
    <<ApiCall("init", "page.len", -1, t.perPage),
      ApiCall("init", "draw", -1, Undefined)>>

NothingBuilt ==
    [dtConfig |-> <<>>, reloadTimer |-> <<>>, dtCalls |-> <<>>,
     pendingDraws |-> 0, drawHook |-> FALSE, entered |-> {}]

Built(t, tableColumns, tableOrder) ==
    [dtConfig     |-> <<[url        |-> t.source,
                         columns    |-> tableColumns,
                         order      |-> tableOrder,
                         serverSide |-> TRUE]>>,
     reloadTimer  |-> IF ~IsUndefined(t.autoReload)
                      THEN bindReload(t.autoReload) ELSE <<>>,
     dtCalls      |-> IF ~IsUndefined(t.perPage)
                      THEN setPageLength(t) ELSE <<>>,
     \* the first draw of the new table, and the one setPageLength asks for
     pendingDraws |-> IF ~IsUndefined(t.perPage) THEN 2 ELSE 1,
     drawHook     |-> TRUE,
     entered      |-> (IF ~IsUndefined(t.autoReload)
                       THEN {"bindReload"} ELSE {})
                      \cup (IF ~IsUndefined(t.perPage)
                            THEN {"setPageLength"} ELSE {})]

\* a version that creates the table before it reads the sort order
makeTableEager(t) ==
    LET tableColumns == getColumns(t)
        tableOrder   == getOrder(t)
    IN  [thrown |-> tableOrder.throw]
        @@ Built(t, tableColumns, tableOrder.value)

makeTable(t) ==
    LET tableColumns == getColumns(t)
        tableOrder   == getOrder(t)
    IN  IF Thrown(tableOrder.throw)
        THEN [thrown |-> tableOrder.throw] @@ NothingBuilt
        ELSE [thrown |-> NoThrow] @@ Built(t, tableColumns, tableOrder.value)

(***************************************************************************)
(* functions.init                                                          *)
(***************************************************************************)
init ==
    /\ phase = "new"
    /\ LET req == hasRequirementsOrThrow(table)
           m   == makeTable(table)
       IN  IF Thrown(req)
           THEN /\ phase' = "failed"
                /\ thrown' = req
                /\ entered' = {"init", "hasRequirementsOrThrow"}
                /\ UNCHANGED <<dtConfig, dtCalls, pendingDraws, reloadTimer,
                               drawHook, timerSeq>>
           ELSE /\ phase' = IF Thrown(m.thrown) THEN "failed" ELSE "built"
                /\ thrown' = m.thrown
                /\ entered' = {"init", "hasRequirementsOrThrow", "makeTable",
                               "getColumns", "getOrder"} \cup m.entered
                /\ dtConfig' = m.dtConfig
                /\ dtCalls' = m.dtCalls
                /\ pendingDraws' = m.pendingDraws
                /\ reloadTimer' = m.reloadTimer
                /\ timerSeq' = timerSeq + Len(m.reloadTimer)
                /\ drawHook' = m.drawHook
    /\ UNCHANGED <<table, handlers, deb, timers, invoked, fcalls, now, result,
                   recalcs,
                   changes, language>>

(***************************************************************************)
(* Markup the specifications start from.                                   *)
(***************************************************************************)
MaxCols       == 3   \* header cells of a table given to getOrder
MaxOptionCols == 2   \* header cells of a table given to getColumns
MaxInitCols   == 2   \* header cells of a table given to init

SeqsUpTo(S, n) == UNION {[1..k -> S] : k \in 0..n}

OptionValues == {Undefined, Bool(TRUE), Bool(FALSE), Str("foo"), Num(7)}
SortMarks    == {Undefined, Str("true"), Str("false")}
SortOrders   == {Undefined, Str("asc"), Str("desc"), Str("down")}

Cell(o, s, m, d) ==
    [name |-> Str("name"), orderable |-> o, searchable |-> s,
     defaultSort |-> m, defaultSortOrder |-> d]

OptionCells == {Cell(o, s, Undefined, Undefined) :
                    o \in OptionValues, s \in OptionValues}
SortCells   == {Cell(Undefined, Undefined, m, d) :
                    m \in SortMarks, d \in SortOrders}
InitCells   == {Cell(Undefined, Bool(FALSE), Undefined, Undefined),
                Cell(Undefined, Undefined, Str("true"), Undefined),
                Cell(Undefined, Undefined, Str("true"), Str("asc")),
                Cell(Str("foo"), Undefined, Str("true"), Str("down"))}

Table(src, id, reload, perPage, row, cells, filterRow, filters) ==
    [source |-> src, tableID |-> id, autoReload |-> reload,
     perPage |-> perPage, columnRow |-> row, cells |-> cells,
     filterRow |-> filterRow, filters |-> filters]

\* a well-formed table with the given header cells and no filter row
PlainTable(cells) ==
    Table(Str("/users"), Str("users"), Undefined, Undefined, TRUE, cells,
          FALSE, <<>>)

Sources     == {Undefined, Str(""), Str("/users")}
TableIDs    == {Undefined, Str(""), Str("users")}
AutoReloads == {Undefined, Num(-5), Num(0), Num(3000)}
PerPages    == {Undefined, Num(-5), Num(0), Num(20)}

InitTables ==
    {Table(src, id, reload, perPage, TRUE, cells, FALSE, <<>>) :
        src \in Sources, id \in TableIDs, reload \in AutoReloads,
        perPage \in PerPages, cells \in SeqsUpTo(InitCells, MaxInitCols)}
    \cup
    {Table(src, id, reload, perPage, FALSE, <<>>, FALSE, <<>>) :
        src \in Sources, id \in TableIDs, reload \in AutoReloads,
        perPage \in PerPages}

NoTable ==
    /\ thrown = NoThrow
    /\ entered = {}
    /\ dtConfig = <<>>
    /\ dtCalls = <<>>
    /\ pendingDraws = 0
    /\ recalcs = 0
    /\ reloadTimer = <<>>
    /\ drawHook = FALSE
    /\ handlers = {}
    /\ deb = <<>>
    /\ timers = {}
    /\ timerSeq = 0
    /\ invoked = <<>>
    /\ fcalls = <<>>
    /\ now = 0
    /\ result = <<>>
    /\ changes = <<>>

Idle == NoTable /\ language = <<>>

(***************************************************************************)
(* SpecInit: one run of init on every table of InitTables.                 *)
(***************************************************************************)
InitInit == table \in InitTables /\ phase = "new" /\ Idle
NextInit == init
SpecInit == InitInit /\ [][NextInit]_vars

(***************************************************************************)
(* SpecColumns, SpecOrder: getColumns and getOrder applied to the header   *)
(* rows of OptionCells and of SortCells.                                   *)
(***************************************************************************)
CallGetColumns ==
    /\ phase = "pure"
    /\ result = <<>>
    /\ result' = <<getColumns(table)>>
    /\ UNCHANGED <<table, phase, thrown, entered, dtConfig, dtCalls,
                   pendingDraws, recalcs, reloadTimer, drawHook, handlers, deb, timers,
                   timerSeq, invoked, fcalls, now,
                   changes, language>>

InitColumns ==
    /\ table \in {PlainTable(c) : c \in SeqsUpTo(OptionCells, MaxOptionCols)}
    /\ phase = "pure"
    /\ Idle
SpecColumns == InitColumns /\ [][CallGetColumns]_vars

CallGetOrder ==
    /\ phase = "pure"
    /\ result = <<>>
    /\ result' = <<getOrder(table)>>
    /\ UNCHANGED <<table, phase, thrown, entered, dtConfig, dtCalls,
                   pendingDraws, recalcs, reloadTimer, drawHook, handlers, deb, timers,
                   timerSeq, invoked, fcalls, now,
                   changes, language>>

InitOrder ==
    /\ table \in {PlainTable(c) : c \in SeqsUpTo(SortCells, MaxCols)}
    /\ phase = "pure"
    /\ Idle
SpecOrder == InitOrder /\ [][CallGetOrder]_vars

(***************************************************************************)
(* Claims about validation and about the configuration that is built.     *)
(***************************************************************************)
Present(v)        == ~IsUndefined(v)
StrictlyPositive(v) == v.t = "number" /\ v.n > 0
Absent(v)         == IsUndefined(v) \/ v = Str("")
InitRan           == phase \in {"failed", "built", "ready"}

\* C3: a data-auto-reload or data-per-page value that is present and is not a
\* strictly positive number makes init throw in hasRequirementsOrThrow, and
\* makeTable is never entered.
C3_NonPositiveRejected ==
    (InitRan /\ \/ (Present(table.autoReload) /\ ~StrictlyPositive(table.autoReload))
                \/ (Present(table.perPage) /\ ~StrictlyPositive(table.perPage)))
    => (Thrown(thrown) /\ "makeTable" \notin entered)

\* C4: a header cell whose orderable (searchable) value is present and is
\* neither true nor false gets orderable (searchable) = true in the column
\* descriptor.
C4_NonBooleanDefaultsToTrue ==
    result # <<>> =>
        \A i \in 1..Len(table.cells) :
            /\ (Present(table.cells[i].orderable)
                /\ table.cells[i].orderable \notin {Bool(TRUE), Bool(FALSE)})
               => result[1][i].orderable = Bool(TRUE)
            /\ (Present(table.cells[i].searchable)
                /\ table.cells[i].searchable \notin {Bool(TRUE), Bool(FALSE)})
               => result[1][i].searchable = Bool(TRUE)

\* C5: in the column descriptors getColumns emits, a raw orderable
\* (searchable) of false stays false, a raw true stays true, and an absent
\* attribute gives true.
C5_ExplicitBooleansKept ==
    result # <<>> =>
        /\ Len(result[1]) = Len(table.cells)
        /\ \A i \in 1..Len(table.cells) :
            /\ table.cells[i].orderable = Bool(FALSE)
               => result[1][i].orderable = Bool(FALSE)
            /\ table.cells[i].orderable \in {Bool(TRUE), Undefined}
               => result[1][i].orderable = Bool(TRUE)
            /\ table.cells[i].searchable = Bool(FALSE)
               => result[1][i].searchable = Bool(FALSE)
            /\ table.cells[i].searchable \in {Bool(TRUE), Undefined}
               => result[1][i].searchable = Bool(TRUE)

C5_Witness ==
    /\ result # <<>>
    /\ \E i \in 1..Len(table.cells) :
        /\ table.cells[i].orderable = Bool(FALSE)
        /\ table.cells[i].searchable = Undefined
        /\ result[1][i].orderable = Bool(FALSE)
        /\ result[1][i].searchable = Bool(TRUE)

Marked == {i \in 1..Len(table.cells) : table.cells[i].defaultSort = Str("true")}
ValidDirection(d) == d \in {Str("asc"), Str("desc")}

\* C6: getOrder returns [[0, "desc"]] when no column is marked default-sort;
\* when exactly one column is marked and its direction is "asc" or "desc" it
\* returns [[i, direction]], i the 0-based position of that column in the row.
C6_OrderResult ==
    result # <<>> =>
        /\ Marked = {}
           => result[1] = [throw |-> NoThrow, value |-> << <<0, Str("desc")>> >>]
        /\ \A i \in Marked :
              (Marked = {i} /\ ValidDirection(table.cells[i].defaultSortOrder))
              => result[1] = [throw |-> NoThrow,
                              value |-> << <<i - 1, table.cells[i].defaultSortOrder>> >>]

C6_Witness ==
    /\ result # <<>>
    /\ Marked = {3}
    /\ table.cells[3].defaultSortOrder = Str("asc")
    /\ result[1].value = << <<2, Str("asc")>> >>

\* C7: when the default-sort column (the marked header cell getOrder reads:
\* the first one in document order) has no direction, or a direction other
\* than "asc" and "desc", getOrder throws and returns no order at all.
C7_DirectionMandatory ==
    result # <<>> =>
        \A i \in Marked :
            ((\A j \in Marked : i <= j)
             /\ ~ValidDirection(table.cells[i].defaultSortOrder))
            => (Thrown(result[1].throw) /\ result[1].value = <<>>)

C7_Witness ==
    /\ result # <<>>
    /\ Len(table.cells) = 2
    /\ Marked = {2}
    /\ table.cells[2].defaultSortOrder = Str("down")
    /\ result[1].throw = MsgInvalidSortOrder

\* C8: when init has thrown, the rendering library has not been instantiated
\* and no reload timer, page-length call, draw hook or filter handler exists;
\* makeTable is entered only if hasRequirementsOrThrow threw nothing.
C8_NoPartialConstruction ==
    /\ Thrown(thrown) =>
          /\ phase = "failed"
          /\ dtConfig = <<>>
          /\ reloadTimer = <<>>
          /\ dtCalls = <<>>
          /\ pendingDraws = 0
          /\ recalcs = 0
          /\ ~drawHook
          /\ handlers = {}
          /\ deb = <<>>
    /\ "makeTable" \in entered
          => hasRequirementsOrThrow(table) = NoThrow

C8_Witness ==
    /\ phase = "failed"
    /\ "getOrder" \in entered
    /\ Present(table.autoReload)
    /\ Present(table.perPage)
    /\ thrown = MsgMissingSortOrder

\* C9: init reports "missing source" when the source is absent or empty,
\* otherwise "missing id" when the id is absent or empty, otherwise "missing
\* column row" when there is no column-definition row.
C9_RequiredFields ==
    InitRan =>
        /\ Absent(table.source) => Contains(thrown, "missing source")
        /\ (~Absent(table.source) /\ Absent(table.tableID))
           => Contains(thrown, "missing id")
        /\ (~Absent(table.source) /\ ~Absent(table.tableID) /\ ~table.columnRow)
           => Contains(thrown, "missing column row")

C9_Witness ==
    /\ phase = "failed"
    /\ Absent(table.source)
    /\ Absent(table.tableID)
    /\ ~table.columnRow
    /\ Contains(thrown, "missing source")
    /\ ~Contains(thrown, "missing id")

(***************************************************************************)
(* Helpers.debounce.  deb[i] is one debounced function: the closure        *)
(* variables wait, immediate and timeout, and col, the column whose        *)
(* search the wrapped callback runs (-1: a callback that is only logged).  *)
(***************************************************************************)
Debounce(wait, immediate, col) ==
    [wait |-> wait, immediate |-> immediate, timeout |-> Undefined, col |-> col]

\* the wrapped callback func.apply(context, args); for a text filter it is
\* table.column(colIdx).search(searchValue).draw()
FuncCalled(i, arg) ==
    /\ fcalls' = [fcalls EXCEPT ![i] = Append(@, [at |-> now, arg |-> arg])]
    /\ IF deb[i].col >= 0
       THEN /\ dtCalls' = dtCalls \o <<ApiCall("input", "search", deb[i].col, arg),
                                       ApiCall("input", "draw", deb[i].col, Undefined)>>
            /\ pendingDraws' = pendingDraws + 1
       ELSE UNCHANGED <<dtCalls, pendingDraws>>

FuncNotCalled == UNCHANGED <<fcalls, dtCalls, pendingDraws>>

\* the timers left pending when the previous one is not cancelled
AfterNoClear(i) == timers

\* the timers left pending when all instances keep the timer id in one
\* shared variable: the timer set last, by any instance, is cancelled
AfterClearShared(i) == {tm \in timers : tm.id # timerSeq}

\* clearTimeout(timeout): cancels the timer with that id if it is pending
AfterClearTimeout(i) == {tm \in timers : Num(tm.id) # deb[i].timeout}

\* the arguments a later func.apply uses when only the first invocation's
\* arguments are kept
CapturedArgsFirst(i, arg) ==
    IF invoked[i] = <<>> THEN arg ELSE invoked[i][1].arg

\* var args = arguments: each invocation's closure keeps its own arguments
CapturedArgs(i, arg) == arg

\* the function returned by Helpers.debounce, called with one argument
Debounced(i, arg) ==
    LET id == timerSeq + 1
        \* timeout = setTimeout(...): timer ids are integers greater than zero
        timeout == Num(id)
    IN  /\ timers' = AfterClearTimeout(i)
                       \cup {[id |-> id, due |-> now + Delay(Num(deb[i].wait)),
                              inst |-> i, arg |-> CapturedArgs(i, arg)]}
        /\ timerSeq' = id
        /\ deb' = [deb EXCEPT ![i].timeout = timeout]
        /\ invoked' = [invoked EXCEPT ![i] = Append(@, [at |-> now, arg |-> arg])]
        \* if (immediate && !timeout), read after the assignment above
        /\ IF Truthy(deb[i].immediate) /\ Truthy(Not(timeout))
           THEN FuncCalled(i, CapturedArgs(i, arg))
           ELSE FuncNotCalled

\* the function given to setTimeout
TimerFire ==
    \E tm \in timers :
        /\ tm.due <= now
        /\ timers' = timers \ {tm}
        /\ deb' = [deb EXCEPT ![tm.inst].timeout = Null]
        /\ IF ~Truthy(deb[tm.inst].immediate)
           THEN FuncCalled(tm.inst, tm.arg)
           ELSE FuncNotCalled
        /\ UNCHANGED <<table, phase, thrown, entered, dtConfig, reloadTimer,
                       drawHook, handlers, timerSeq, invoked, now, result,
                   recalcs,
                   changes, language>>

(***************************************************************************)
(* The clock.  It stops at every deadline, and does not pass one: a due    *)
(* timer runs first, and so do the events below wait for it.               *)
(***************************************************************************)
TickMs         == 50    \* the longest step of the clock
MaxTime        == 600   \* the clock stops here
MaxEvents      == 3     \* calls of debounced functions and change events
                        \* in one behaviour

Deadlines == {tm.due : tm \in timers}
             \cup {reloadTimer[k].due : k \in 1..Len(reloadTimer)}
NoDueTimer == \A d \in Deadlines : d > now
Min(S) == CHOOSE x \in S : \A y \in S : x <= y

Advance ==
    /\ NoDueTimer
    /\ now < MaxTime
    /\ now' = Min({now + TickMs, MaxTime} \cup Deadlines)
    /\ UNCHANGED <<table, phase, thrown, entered, dtConfig, dtCalls,
                   pendingDraws, recalcs, reloadTimer, drawHook, handlers, deb, timers,
                   timerSeq, invoked, fcalls, result,
                   changes, language>>

RECURSIVE SumLen(_, _)
SumLen(f, S) ==
    IF S = {} THEN 0
    ELSE LET x == CHOOSE y \in S : TRUE IN Len(f[x]) + SumLen(f, S \ {x})
Invocations == SumLen(invoked, DOMAIN invoked)
Changes     == Len(changes)
Events      == Invocations + Changes

(***************************************************************************)
(* SpecDebounce: one debounced function, trailing or leading, called with  *)
(* the arguments of Args at any moment of the clock.                       *)
(***************************************************************************)
Args  == {Str("a"), Str("b")}
Waits == {100, 250}

Invoke ==
    \E i \in DOMAIN deb, a \in Args :
        /\ phase = "standalone"
        /\ NoDueTimer
        /\ Events < MaxEvents
        /\ Debounced(i, a)
        /\ UNCHANGED <<table, phase, thrown, entered, dtConfig, reloadTimer,
                       drawHook, handlers, now, result,
                   recalcs,
                   changes, language>>

InitDebounce ==
    /\ table = PlainTable(<<>>)
    /\ phase = "standalone"
    /\ thrown = NoThrow
    /\ entered = {}
    /\ dtConfig = <<>>
    /\ dtCalls = <<>>
    /\ pendingDraws = 0
    /\ recalcs = 0
    /\ reloadTimer = <<>>
    /\ drawHook = FALSE
    /\ handlers = {}
    /\ \E w \in Waits, immediate \in {Undefined, Bool(TRUE)} :
          deb = (0 :> Debounce(w, immediate, -1))
    /\ timers = {}
    /\ timerSeq = 0
    /\ invoked = (0 :> <<>>)
    /\ fcalls = (0 :> <<>>)
    /\ now = 0
    /\ result = <<>>
    /\ changes = <<>>
    /\ language = <<>>

NextDebounce == Invoke \/ TimerFire \/ Advance
SpecDebounce == InitDebounce /\ [][NextDebounce]_vars

(***************************************************************************)
(* Claims about Helpers.debounce.                                          *)
(***************************************************************************)
\* invocation k is the last one of its burst: none follows less than w later
BurstEnd(inv, w, k) == k = Len(inv) \/ inv[k + 1].at - inv[k].at >= w
\* invocation k is the first one of its burst
BurstStart(inv, w, k) == k = 1 \/ inv[k].at - inv[k - 1].at >= w

Indexed(inv) ==
    [k \in 1..Len(inv) |-> [k |-> k, at |-> inv[k].at, arg |-> inv[k].arg]]

\* one call per burst, w after the burst's last invocation and with its
\* argument; the burst still open at the end of inv counts if withLast
QuietCalls(inv, w, withLast) ==
    LET ends == SelectSeq(Indexed(inv),
                          LAMBDA e : /\ BurstEnd(inv, w, e.k)
                                     /\ (e.k < Len(inv) \/ withLast))
    IN  [j \in 1..Len(ends) |-> [at |-> ends[j].at + w, arg |-> ends[j].arg]]

\* the calls a trailing debounce must have made by now, given its invocations
TrailingCallsOk(inv, w, calls) ==
    IF inv = <<>> THEN calls = <<>>
    ELSE LET quietSince == inv[Len(inv)].at + w
         IN  IF now > quietSince THEN calls = QuietCalls(inv, w, TRUE)
             ELSE IF now < quietSince THEN calls = QuietCalls(inv, w, FALSE)
             ELSE calls \in {QuietCalls(inv, w, FALSE), QuietCalls(inv, w, TRUE)}

\* C1: in trailing mode every burst of invocations (each less than w after
\* the previous one) followed by w without invocation has caused exactly one
\* call of the callback, w after the burst's last invocation and with that
\* invocation's argument; nothing else is ever called.
C1_TrailingOncePerBurst ==
    \A i \in DOMAIN deb :
        ~Truthy(deb[i].immediate)
        => TrailingCallsOk(invoked[i], deb[i].wait, fcalls[i])

C1_Witness ==
    \E i \in DOMAIN deb :
        /\ ~Truthy(deb[i].immediate)
        /\ Len(invoked[i]) = 3
        /\ \A k \in 1..2 : invoked[i][k + 1].at - invoked[i][k].at < deb[i].wait
        /\ invoked[i][1].at < invoked[i][3].at
        /\ invoked[i][1].arg # invoked[i][3].arg
        /\ now >= invoked[i][3].at + deb[i].wait
        /\ fcalls[i] = <<[at  |-> invoked[i][3].at + deb[i].wait,
                          arg |-> invoked[i][3].arg]>>

\* C2: in leading mode the first invocation of every burst calls the
\* callback within that invocation, with that invocation's argument.
C2_LeadingFiresAtBurstStart ==
    \A i \in DOMAIN deb :
        Truthy(deb[i].immediate)
        => \A k \in 1..Len(invoked[i]) :
              BurstStart(invoked[i], deb[i].wait, k)
              => \E j \in 1..Len(fcalls[i]) :
                    fcalls[i][j] = [at  |-> invoked[i][k].at,
                                    arg |-> invoked[i][k].arg]

(***************************************************************************)
(* The handlers of a built table.                                          *)
(***************************************************************************)
FilterWait == 250

\* a text filter whose debounce got no quiet period
FilterDebounceNoWait(colIdx) == Debounce(0, Undefined, colIdx)

\* functions.initFilterInput: Way2web.Helpers.debounce(function(searchValue) {
\*     table.column(colIdx).search(searchValue).draw(); }, 250)
FilterDebounce(colIdx) == Debounce(FilterWait, Undefined, colIdx)

\* table.columns().eq(0): the column indexes of the table that was built
ColumnIndexes == 0..(Len(dtConfig[1].columns) - 1)

\* the filter cell one position to the right holds such an element
FilterCellShifted(kind, colIdx) ==
    /\ colIdx + 2 <= Len(table.filters)
    /\ table.filters[colIdx + 2][kind]

\* $table.find(filterRowSelector + ' th:eq(' + colIdx + ')').find(selector):
\* the filter cell at that position holds such an element
FilterCellHas(kind, colIdx) ==
    /\ colIdx + 1 <= Len(table.filters)
    /\ table.filters[colIdx + 1][kind]

\* functions.filterColumn, with initFilterSelect and initFilterInput
filterColumn ==
    /\ deb' = [c \in ColumnIndexes |-> FilterDebounce(c)]
    /\ invoked' = [c \in ColumnIndexes |-> <<>>]
    /\ fcalls' = [c \in ColumnIndexes |-> <<>>]
    /\ handlers' = {<<"change", c>> : c \in {x \in ColumnIndexes :
                                                FilterCellHas("select", x)}}
                   \cup {<<"input", c>> : c \in {x \in ColumnIndexes :
                                                    FilterCellHas("input", x)}}

\* the initComplete callback given to $table.DataTable(...); the library
\* calls it once, when the table has been initialised
initComplete ==
    /\ phase = "built"
    /\ phase' = "ready"
    /\ IF table.filterRow
       THEN filterColumn
       ELSE UNCHANGED <<deb, invoked, fcalls, handlers>>
    /\ UNCHANGED <<table, thrown, entered, dtConfig, dtCalls, pendingDraws, recalcs,
                   reloadTimer, drawHook, timers, timerSeq, now, result,
                   changes, language>>

\* input.val() at the previous 'input' event of the field; the field
\* starts empty
FieldValue(colIdx) ==
    IF invoked[colIdx] = <<>> THEN Str("")
    ELSE invoked[colIdx][Len(invoked[colIdx])].arg

\* the 'input' handler of a .js-input-filter; the event tells that the
\* field's value has changed
InputEvent ==
    \E h \in handlers, searchValue \in Args :
        /\ h[1] = "input"
        /\ searchValue # FieldValue(h[2])
        /\ NoDueTimer
        /\ Events < MaxEvents
        /\ Debounced(h[2], searchValue)
        /\ UNCHANGED <<table, phase, thrown, entered, dtConfig, reloadTimer,
                       drawHook, handlers, now, result,
                   recalcs,
                   changes, language>>

\* the redraws a sequence of API calls asks for
Draws(calls) == Len(SelectSeq(calls, LAMBDA x : x.op = "draw"))

\* a handler that searches but leaves the redraw out
ChangeCallsNoDraw(colIdx, searchValue) ==
    <<ApiCall("change", "search", colIdx, searchValue)>>

\* table.column(colIdx).search(searchValue).draw() in the 'change' handler
ChangeCalls(colIdx, searchValue) ==
    <<ApiCall("change", "search", colIdx, searchValue),
      ApiCall("change", "draw", colIdx, Undefined)>>

\* a dropdown that cancels the pending text search of its column
TimersAfterChangeCancel(colIdx) == {tm \in timers : tm.inst # colIdx}

\* the 'change' handler sets and clears no timer
TimersAfterChange(colIdx) == timers

\* the 'change' handler of a .js-select-filter
ChangeEvent ==
    \E h \in handlers, searchValue \in {Str("1"), Str("0")} :
        /\ h[1] = "change"
        /\ NoDueTimer
        /\ Events < MaxEvents
        /\ changes' = Append(changes, [col |-> h[2], val |-> searchValue,
                                       pending |-> \E tm \in timers : tm.inst = h[2]])
        /\ dtCalls' = dtCalls \o ChangeCalls(h[2], searchValue)
        /\ pendingDraws' = pendingDraws + Draws(ChangeCalls(h[2], searchValue))
        /\ timers' = TimersAfterChange(h[2])
        /\ UNCHANGED <<table, phase, thrown, entered, dtConfig, reloadTimer,
                       drawHook, handlers, deb, timerSeq, invoked, fcalls,
                       now, result, recalcs, language>>

\* a timer that runs once
NextReloadOnce(tm) == <<>>

\* setInterval: the timer is due again one interval later
NextReload(tm) == <<[tm EXCEPT !.due = @ + Delay(tm.interval)]>>

\* the function given to setInterval by bindReload: table.ajax.reload(),
\* which ends in a redraw
ReloadTick ==
    /\ reloadTimer # <<>>
    /\ reloadTimer[1].due <= now
    /\ reloadTimer' = NextReload(reloadTimer[1])
    /\ dtCalls' = Append(dtCalls, ApiCall("reload", "ajax.reload", -1, Undefined))
    /\ pendingDraws' = pendingDraws + 1
    /\ UNCHANGED <<table, phase, thrown, entered, dtConfig, drawHook, handlers,
                   deb, timers, timerSeq, invoked, fcalls, now, result,
                   recalcs, changes, language>>

\* a handler attached with .one(): it runs for the first redraw only
OnDrawOnce(n) == IF drawHook /\ n = 0 THEN 1 ELSE n

\* objTable.on('draw.dt', function() { objTable.responsive.recalc(); })
OnDraw(n) == IF drawHook THEN n + 1 ELSE n

\* the library completes a redraw and triggers 'draw.dt'
DrawComplete ==
    /\ pendingDraws > 0
    /\ pendingDraws' = pendingDraws - 1
    /\ recalcs' = OnDraw(recalcs)
    /\ UNCHANGED <<table, phase, thrown, entered, dtConfig, dtCalls,
                   reloadTimer, drawHook, handlers, deb, timers, timerSeq,
                   invoked, fcalls, now, result, changes, language>>

(***************************************************************************)
(* Spec: a table is initialised and then used.                             *)
(***************************************************************************)
PlainCell   == Cell(Undefined, Undefined, Undefined, Undefined)

\* two columns, a dropdown on the first, a text filter and a dropdown on
\* the second
FilteredTable ==
    Table(Str("/users"), Str("users"), Undefined, Undefined, TRUE,
          <<PlainCell, PlainCell>>, TRUE,
          <<[input |-> FALSE, select |-> TRUE], [input |-> TRUE, select |-> TRUE]>>)
\* one column with a text filter, reloading every 300 ms, 20 rows a page
ReloadingTable ==
    Table(Str("/users"), Str("users"), Num(300), Num(20), TRUE,
          <<PlainCell>>, TRUE, <<[input |-> TRUE, select |-> FALSE]>>)
\* no filter row
UnfilteredTable ==
    Table(Str("/users"), Str("users"), Num(300), Undefined, TRUE,
          <<PlainCell, PlainCell>>, FALSE, <<>>)
\* no id: init throws
BrokenTable ==
    Table(Str("/users"), Str(""), Num(300), Num(20), TRUE,
          <<PlainCell>>, TRUE, <<[input |-> TRUE, select |-> TRUE]>>)

LiveTables == {FilteredTable, ReloadingTable, UnfilteredTable, BrokenTable}

Init == table \in LiveTables /\ phase = "new" /\ Idle

Next ==
    \/ init
    \/ initComplete
    \/ InputEvent
    \/ ChangeEvent
    \/ TimerFire
    \/ ReloadTick
    \/ DrawComplete
    \/ Advance

Spec == Init /\ [][Next]_vars

(***************************************************************************)
(* Claims about the filter handlers.                                       *)
(***************************************************************************)
\* the values of the searches the text filter of column c has issued
InputSearches(c) ==
    LET found == SelectSeq(dtCalls, LAMBDA x : /\ x.by = "input"
                                               /\ x.op = "search"
                                               /\ x.col = c)
    IN  [j \in 1..Len(found) |-> found[j].val]

\* C10: for the text filter of column c, every burst of input events (each
\* less than 250 ms after the previous one) followed by 250 ms without input
\* has issued exactly one search against column c, 250 ms after the last
\* event and with its value, at once followed by a redraw; no other search
\* is issued for that field.
C10_TextFilterDebounced ==
    /\ \A h \in handlers :
          h[1] = "input"
          => /\ TrailingCallsOk(invoked[h[2]], 250, fcalls[h[2]])
             /\ InputSearches(h[2])
                  = [j \in 1..Len(fcalls[h[2]]) |-> fcalls[h[2]][j].arg]
    /\ \A k \in 1..Len(dtCalls) :
          (dtCalls[k].by = "input" /\ dtCalls[k].op = "search")
          => /\ <<"input", dtCalls[k].col>> \in handlers
             /\ k < Len(dtCalls)
             /\ dtCalls[k + 1] = [by |-> "input", op |-> "draw",
                                  col |-> dtCalls[k].col, val |-> Undefined]

C10_Witness ==
    /\ <<"input", 1>> \in handlers
    /\ Len(invoked[1]) = 3
    /\ \A k \in 1..2 : invoked[1][k + 1].at - invoked[1][k].at = 50
    /\ invoked[1][2].arg # invoked[1][3].arg
    /\ now >= invoked[1][3].at + 250
    /\ fcalls[1] = <<[at |-> invoked[1][3].at + 250, arg |-> invoked[1][3].arg]>>
    /\ InputSearches(1) = <<invoked[1][3].arg>>
    /\ InputSearches(0) = <<>>

\* the calls the 'change' handlers have made on the table, in order
ChangeApiCalls == SelectSeq(dtCalls, LAMBDA x : x.by = "change")

\* C11: every change event of a dropdown bound to column c has issued, by
\* the end of its own handling, exactly one search against column c with the
\* selected value, at once followed by a redraw; n change events have issued
\* n such pairs, in event order.
C11_DropdownImmediate ==
    /\ Len(ChangeApiCalls) = 2 * Len(changes)
    /\ \A n \in 1..Len(changes) :
          /\ <<"change", changes[n].col>> \in handlers
          /\ ChangeApiCalls[2 * n - 1]
               = [by |-> "change", op |-> "search",
                  col |-> changes[n].col, val |-> changes[n].val]
          /\ ChangeApiCalls[2 * n]
               = [by |-> "change", op |-> "draw",
                  col |-> changes[n].col, val |-> Undefined]
    /\ \A k \in 1..Len(dtCalls) :
          (dtCalls[k].by = "change" /\ dtCalls[k].op = "search")
          => /\ k < Len(dtCalls)
             /\ dtCalls[k + 1].by = "change"
             /\ dtCalls[k + 1].op = "draw"

C11_Witness ==
    /\ Len(changes) = 2
    /\ changes[1].col = 1
    /\ changes[2].col = 0
    /\ changes[1].val # changes[2].val
    /\ Len(ChangeApiCalls) = 4
    /\ ChangeApiCalls[3].col = 0
    /\ ChangeApiCalls[3].val = changes[2].val

(***************************************************************************)
(* Further claims about Helpers.debounce, under SpecDebounce.              *)
(***************************************************************************)
\* C12: a trailing instance with quiet period w that is invoked, left alone
\* for at least w, invoked again and left alone for at least w has called
\* the callback exactly twice: first with the first invocation's argument,
\* then with the second's (and exactly once, with the first argument, by
\* the time of the second invocation).
C12_IndependentBursts ==
    \A i \in DOMAIN deb :
        LET inv == invoked[i]
            w   == deb[i].wait
        IN  (/\ ~Truthy(deb[i].immediate)
             /\ Len(inv) = 2
             /\ inv[2].at - inv[1].at >= w)
            => /\ Len(fcalls[i]) >= 1
               /\ fcalls[i][1].arg = inv[1].arg
               /\ fcalls[i][1].at <= inv[2].at
               /\ now < inv[2].at + w => Len(fcalls[i]) = 1
               /\ now > inv[2].at + w
                  => /\ Len(fcalls[i]) = 2
                     /\ fcalls[i][2].arg = inv[2].arg

C12_Witness ==
    \E i \in DOMAIN deb :
        /\ ~Truthy(deb[i].immediate)
        /\ Len(invoked[i]) = 2
        /\ invoked[i][2].at - invoked[i][1].at >= deb[i].wait
        /\ invoked[i][1].arg # invoked[i][2].arg
        /\ now > invoked[i][2].at + deb[i].wait
        /\ Len(fcalls[i]) = 2
        /\ fcalls[i][1].arg = invoked[i][1].arg
        /\ fcalls[i][2].arg = invoked[i][2].arg
        /\ timers = {}

\* the pending timers of instance i
PendingOf(i) == {tm \in timers : tm.inst = i}

\* C13: in either mode every debounced instance has at most one pending
\* timer; the pending one is the timer of the instance's latest invocation
\* (the one its timeout variable names), so every earlier timer has been
\* cancelled or has fired.
C13_SinglePendingTimer ==
    \A i \in DOMAIN deb :
        /\ Cardinality(PendingOf(i)) <= 1
        /\ \A tm \in PendingOf(i) :
              /\ deb[i].timeout = Num(tm.id)
              /\ invoked[i] # <<>>
              /\ tm.due = invoked[i][Len(invoked[i])].at + deb[i].wait
              /\ tm.arg = invoked[i][Len(invoked[i])].arg

C13_Witness ==
    \E i \in DOMAIN deb :
        /\ Len(invoked[i]) = 3
        /\ invoked[i][2].at < invoked[i][1].at + deb[i].wait
        /\ invoked[i][3].at < invoked[i][2].at + deb[i].wait
        /\ invoked[i][1].at < invoked[i][2].at
        /\ invoked[i][2].arg # invoked[i][3].arg
        /\ Cardinality(PendingOf(i)) = 1
        /\ timerSeq = 3
        /\ \A tm \in PendingOf(i) : tm.id = 3 /\ tm.arg = invoked[i][3].arg

(***************************************************************************)
(* SpecPair: a table with a text filter on each of its two columns, hence  *)
(* two functions made by two calls of Helpers.debounce.                    *)
(***************************************************************************)
PairTable ==
    Table(Str("/users"), Str("users"), Undefined, Undefined, TRUE,
          <<PlainCell, PlainCell>>, TRUE,
          <<[input |-> TRUE, select |-> FALSE], [input |-> TRUE, select |-> FALSE]>>)

InitPair == table = PairTable /\ phase = "new" /\ Idle

NextPair ==
    \/ init
    \/ initComplete
    \/ InputEvent
    \/ TimerFire
    \/ DrawComplete
    \/ Advance

SpecPair == InitPair /\ [][NextPair]_vars

\* what instance i has pending and has called follows from its own
\* invocations alone
OwnHistoryDecides(i) ==
    LET inv == invoked[i]
        w   == deb[i].wait
    IN  /\ TrailingCallsOk(inv, w, fcalls[i])
        /\ PendingOf(i) =
              IF inv = <<>> \/ Len(fcalls[i]) = Len(QuietCalls(inv, w, TRUE))
              THEN {}
              ELSE {tm \in timers : /\ tm.inst = i
                                    /\ tm.due = inv[Len(inv)].at + w
                                    /\ tm.arg = inv[Len(inv)].arg}
        /\ Cardinality(PendingOf(i)) <= 1
        /\ inv # <<>> /\ now < inv[Len(inv)].at + w => PendingOf(i) # {}

\* a step in which instance i is invoked or its timer runs leaves the
\* pending timer, the timeout variable and the callback calls of every
\* other instance as they are
OthersUntouched ==
    \A i \in DOMAIN deb \cap DOMAIN deb' :
        (invoked'[i] # invoked[i] \/ fcalls'[i] # fcalls[i])
        => \A j \in (DOMAIN deb \cap DOMAIN deb') \ {i} :
              /\ {tm \in timers' : tm.inst = j} = PendingOf(j)
              /\ deb'[j] = deb[j]
              /\ fcalls'[j] = fcalls[j]
              /\ invoked'[j] = invoked[j]

\* C14: of two debounced functions made by separate calls of
\* Helpers.debounce, under every interleaving of their invocations and
\* timers, an invocation or timer of one never changes the other's pending
\* timer or callback calls, and each one's calls are those its own
\* invocations alone determine.
C14_InstancesIndependent ==
    /\ [](\A i \in DOMAIN deb : OwnHistoryDecides(i))
    /\ [][OthersUntouched]_vars

C14_Witness ==
    /\ DOMAIN deb = {0, 1}
    /\ Len(invoked[0]) = 2
    /\ Len(invoked[1]) = 1
    /\ invoked[0][1].at < invoked[1][1].at
    /\ invoked[1][1].at < invoked[0][2].at
    /\ invoked[0][2].at < invoked[0][1].at + FilterWait
    /\ fcalls[1] = <<[at |-> invoked[1][1].at + FilterWait, arg |-> invoked[1][1].arg]>>
    /\ fcalls[0] = <<[at |-> invoked[0][2].at + FilterWait, arg |-> invoked[0][2].arg]>>
    /\ fcalls[1][1].at < fcalls[0][1].at

(***************************************************************************)
(* Claims about the reload timer, the redraw hook and the filter wiring,   *)
(* under Spec.                                                             *)
(***************************************************************************)
InitSucceeded == phase \in {"built", "ready"}

\* the reloads this component has triggered
Reloads == Len(SelectSeq(dtCalls, LAMBDA x : x.op = "ajax.reload"))

\* the recurring timer is set, with the configured interval, and no tick of
\* it has been passed over; without a configured interval, or without a
\* successful init, there is no timer and no reload
ReloadTimerSet ==
    IF InitSucceeded /\ ~IsUndefined(table.autoReload)
    THEN /\ Len(reloadTimer) = 1
         /\ reloadTimer[1].interval = table.autoReload
         /\ now <= reloadTimer[1].due
         /\ reloadTimer[1].due <= now + Delay(table.autoReload)
    ELSE reloadTimer = <<>> /\ Reloads = 0

\* no step cancels or changes the timer; a step triggers a reload only at
\* the timer's tick, and then triggers one and leaves the timer due an
\* interval later
ReloadTimerKept ==
    reloadTimer # <<>>
    => /\ Len(reloadTimer') = 1
       /\ reloadTimer'[1].id = reloadTimer[1].id
       /\ reloadTimer'[1].interval = reloadTimer[1].interval
       /\ IF Reloads' # Reloads
          THEN /\ Reloads' = Reloads + 1
               /\ reloadTimer[1].due = now
               /\ reloadTimer'[1].due = now + Delay(reloadTimer[1].interval)
          ELSE reloadTimer'[1].due = reloadTimer[1].due

\* C15: when an auto-reload interval is configured and init succeeds, a
\* recurring timer exists from then on; every tick of it triggers exactly
\* one reload and leaves it due an interval later, and no input, change,
\* draw or page-length step cancels or moves it; when no interval is
\* configured (or init fails) there is no timer and no reload is triggered.
C15_AutoReload ==
    /\ []ReloadTimerSet
    /\ [][ReloadTimerKept]_vars

C15_Witness ==
    /\ phase = "ready"
    /\ Reloads = 2
    /\ reloadTimer # <<>>
    /\ reloadTimer[1].due > now
    /\ Invocations >= 1
    /\ recalcs >= 2
    /\ \E k \in 1..Len(dtCalls) - 1 :
          dtCalls[k].op = "ajax.reload" /\ dtCalls[k + 1].by = "input"

\* the redraws asked for so far: the initial draw of $table.DataTable(...),
\* every .draw() of this component and every reload
RedrawsRequested == 1 + Draws(dtCalls) + Reloads

\* the redraws the library has completed so far
RedrawsCompleted == RedrawsRequested - pendingDraws

\* C16: after a successful init the number of responsive recalculations
\* equals the number of completed redraws (initial draw, page-length draw,
\* filter draws, reload draws): every completion has run the recalculation
\* and nothing else has; before that, nothing is drawn or recalculated.
C16_RecalcAfterEveryDraw ==
    IF InitSucceeded
    THEN /\ drawHook
         /\ pendingDraws >= 0
         /\ recalcs = RedrawsCompleted
    ELSE recalcs = 0 /\ pendingDraws = 0

C16_Witness ==
    /\ phase = "ready"
    /\ ~IsUndefined(table.perPage)
    /\ Reloads >= 1
    /\ Len(SelectSeq(dtCalls, LAMBDA x : x.by = "input" /\ x.op = "draw")) >= 1
    /\ pendingDraws = 0
    /\ RedrawsCompleted >= 4
    /\ recalcs = RedrawsCompleted

\* the filter cell under header cell number c (from 0) holds a text field
\* (kind "input") or a dropdown (kind "select")
HasFilter(kind, c) ==
    /\ table.filterRow
    /\ c + 1 <= Len(table.filters)
    /\ table.filters[c + 1][kind]

\* the handlers the markup calls for: one per filter element, bound to the
\* index of the header cell it stands under
PositionalHandlers ==
    {<<"input", c>> : c \in {x \in 0..(Len(table.cells) - 1) : HasFilter("input", x)}}
    \cup {<<"change", c>> : c \in {x \in 0..(Len(table.cells) - 1) : HasFilter("select", x)}}

ColumnSearches == SelectSeq(dtCalls, LAMBDA x : x.op = "search")

\* C17: without a filter row no handler is ever attached and no per-column
\* search is ever issued; with a filter row the handlers are attached when
\* the library reports initialisation complete, not before, and they are
\* exactly one per filter element, bound to the column index of its cell,
\* text field and dropdown of one cell each on their own; every search is
\* issued by a handler for the column it is bound to.
C17_FilterWiring ==
    /\ ~table.filterRow => handlers = {} /\ ColumnSearches = <<>>
    /\ phase # "ready" => handlers = {} /\ ColumnSearches = <<>>
    /\ phase = "ready" => handlers = PositionalHandlers
    /\ \A h \in handlers : h[2] \in DOMAIN deb /\ deb[h[2]].col = h[2]
    /\ \A k \in 1..Len(ColumnSearches) :
          <<ColumnSearches[k].by, ColumnSearches[k].col>> \in handlers

C17_Witness ==
    /\ phase = "ready"
    /\ table.filterRow
    /\ handlers = {<<"change", 0>>, <<"change", 1>>, <<"input", 1>>}
    /\ \E k \in 1..Len(ColumnSearches) :
          ColumnSearches[k].by = "change" /\ ColumnSearches[k].col = 0
    /\ \E k \in 1..Len(ColumnSearches) :
          ColumnSearches[k].by = "input" /\ ColumnSearches[k].col = 1

(***************************************************************************)
(* Helpers.getLanguage, and SpecLanguage: the function called up to        *)
(* MaxLangCalls times on a page with up to MaxMarkers .js-language         *)
(* elements.                                                               *)
(***************************************************************************)
MsgLanguageMissing == <<"language code missing">>

\* $(selector).attr(name) on the elements found: the attribute of the first
\* one, undefined when there is none
Attr(elements) == IF elements = <<>> THEN Undefined ELSE elements[1]

\* a resolver that accepts the empty language code
getLanguageAcceptEmpty(page) ==
    LET lang == Attr(page)
    IN  IF IsUndefined(lang)
        THEN [throw |-> MsgLanguageMissing, value |-> Undefined]
        ELSE [throw |-> NoThrow, value |-> lang]

\* Helpers.getLanguage
getLanguage(page) ==
    LET lang == Attr(page)
    IN  IF IsUndefined(lang) \/ lang = Str("")
        THEN [throw |-> MsgLanguageMissing, value |-> Undefined]
        ELSE [throw |-> NoThrow, value |-> lang]

MaxMarkers   == 2   \* .js-language elements on a page
MaxLangCalls == 2   \* calls of getLanguage on one page

LangAttrs == {Undefined, Str(""), Str("nl"), Str("en"), Str("de"), Str("nl-BE")}

CallGetLanguage ==
    /\ phase = "pure"
    /\ Len(result) < MaxLangCalls
    /\ result' = Append(result, getLanguage(language))
    /\ UNCHANGED <<table, phase, thrown, entered, dtConfig, dtCalls,
                   pendingDraws, recalcs, reloadTimer, drawHook, handlers, deb,
                   timers, timerSeq, invoked, fcalls, now, changes, language>>

InitLanguage ==
    /\ table = PlainTable(<<>>)
    /\ phase = "pure"
    /\ NoTable
    /\ language \in SeqsUpTo(LangAttrs, MaxMarkers)
SpecLanguage == InitLanguage /\ [][CallGetLanguage]_vars

\* the locale marker of the page: the lang attribute of its first
\* .js-language element; absent without such an element or attribute
LocaleMarker == IF language = <<>> THEN Undefined ELSE language[1]

\* C18: every call of getLanguage on a page whose locale marker is absent
\* or empty throws an error containing "language code missing"; every call
\* on a page with a marker returns the marker's value unchanged and throws
\* nothing; consecutive calls on one page give the same outcome.
C18_LanguageResolver ==
    /\ \A k \in 1..Len(result) :
          IF LocaleMarker \in {Undefined, Str("")}
          THEN /\ Contains(result[k].throw, "language code missing")
               /\ result[k].value = Undefined
          ELSE /\ result[k].throw = NoThrow
               /\ result[k].value = LocaleMarker
    /\ \A k \in 1..Len(result) : result[k] = result[1]

C18_Witness ==
    /\ language = <<Str("nl"), Str("")>>
    /\ result = <<[throw |-> NoThrow, value |-> Str("nl")],
                  [throw |-> NoThrow, value |-> Str("nl")]>>

(***************************************************************************)
(* A claim about the configuration init hands to the library, under        *)
(* SpecInit.                                                               *)
(***************************************************************************)
\* C19: whenever init has completed without error, the order handed to the
\* library is a single pair whose column index is a valid index into the
\* column descriptors handed over with it: 0 <= index < their number.
C19_ValidSortIndex ==
    (InitSucceeded /\ thrown = NoThrow)
    => /\ Len(dtConfig) = 1
       /\ Len(dtConfig[1].order) = 1
       /\ 0 <= dtConfig[1].order[1][1]
       /\ dtConfig[1].order[1][1] < Len(dtConfig[1].columns)

(***************************************************************************)
(* A claim about the text filters among the other events, under Spec.      *)
(***************************************************************************)
\* the step is a reload tick, a dropdown change or a redraw completion
\* with its recalculation
UnrelatedStep ==
    \/ Reloads' # Reloads
    \/ changes' # changes
    \/ pendingDraws' < pendingDraws
    \/ recalcs' # recalcs

\* the searches the text filter of column c has issued are the calls of
\* its debounced callback
SearchesAreCalls(c) ==
    InputSearches(c) = [j \in 1..Len(fcalls[c]) |-> fcalls[c][j].arg]

\* C20: a reload tick, a dropdown change on any column and a redraw
\* completion with its recalculation leave every pending text-search timer,
\* its deadline and its value as they are and issue no text search; in
\* every reachable state the timer of column c's text filter is due 250 ms
\* after the last input on that field, with that value, and the searches
\* issued for the field are exactly one per burst, 250 ms after its last
\* input and with its value.
C20_PendingSearchSurvives ==
    /\ [](\A c \in DOMAIN deb : /\ deb[c].wait = 250
                                 /\ OwnHistoryDecides(c)
                                 /\ SearchesAreCalls(c))
    /\ [][UnrelatedStep => /\ timers' = timers
                           /\ deb' = deb
                           /\ fcalls' = fcalls
                           /\ invoked' = invoked]_vars

C20_Witness ==
    /\ phase = "ready"
    /\ 1 \in DOMAIN deb
    /\ Len(invoked[1]) = 1
    /\ \E n \in 1..Len(changes) : changes[n].col = 1 /\ changes[n].pending
    /\ recalcs >= 1
    /\ fcalls[1] = <<[at |-> invoked[1][1].at + 250, arg |-> invoked[1][1].arg]>>
    /\ InputSearches(1) = <<invoked[1][1].arg>>
====
